---------------------------- MODULE Spec2Model ----------------------------
(***************************************************************************)
(* A model of jira-forecasting.                                            *)
(*                                                                         *)
(*   SpecCycle    JiraDataManager.calculate_cycle_times (src/jira_data.py) *)
(*   SpecForecast MonteCarloForecaster (src/forecasting.py)                *)
(*   SpecThroughput JiraDataManager.prepare_data (src/jira_data.py)        *)
(*   SpecOutliers remove_outliers (src/main.py)                            *)
(*   SpecBackfill JiraDataManager.backfill_story_points (src/jira_data.py) *)
(*   SpecStoryPoints, SpecStatistics                                       *)
(*                JiraStatistics.get_filter_statistics                     *)
(*                (src/jira_statistics.py)                                 *)
(*                                                                         *)
(* Durations and timestamps are integers (one unit of time); a Python dict *)
(* is a function whose DOMAIN is the set of its keys.                      *)
(***************************************************************************)
EXTENDS Integers, Sequences, FiniteSets, TLC

VARIABLES
    \* ---- calculate_cycle_times
    changelog,                  \* the argument: status and non-status items
    status_changes,             \* list of <<timestamp, from_status, to_status>>
    backlog_to_progress_count,
    cycle_times,                \* dict status -> duration
    status_start_times,         \* dict status -> timestamp (open intervals)
    next_change,                \* position of the loop of line 130
    current_time,               \* pd.Timestamp.now of line 142 (None before)
    cpc,                        \* position in calculate_cycle_times
    \* ---- MonteCarloForecaster
    op,                         \* the method called
    arg,                        \* its arguments after df
    completed_per_day,          \* df["Completed"].values
    num_days,                   \* Nothing or Some(integer)
    target_count,               \* Nothing or Some(integer)
    simulations,                \* num_simulations rows of num_days values
    days_to_target,             \* one day index per trial
    result,                     \* the four values returned, in hundredths
    clock_reads,                \* the four datetime.now() of forecast_backlog
    completion_dates,           \* the four dates of forecast_backlog
    error,                      \* None, or the exception raised
    raised_at,                  \* the step that raised it
    fpc,                        \* position in run_simulation
    \* ---- the ticket list: prepare_data, remove_outliers, statistics
    tickets,                    \* the argument: a list of ticket records
    use_story_points,           \* argument of prepare_data
    df,                         \* prepare_data: Nothing (None) or Some(frame)
    iqr_multiplier,             \* argument of remove_outliers, in halves
    filtered_tickets,           \* remove_outliers: the tickets kept
    removed_outliers,           \* remove_outliers: the tickets removed
    outlier_calls,              \* calls of remove_outliers made
    selected_statuses,          \* argument of get_filter_statistics
    stats,                      \* the dict get_filter_statistics builds
    terror,                     \* None, or the exception raised
    tpc,                        \* position in the operation on tickets
    \* ---- backfill_story_points
    source_tickets,             \* the tickets as process_issues made them
    backfill_calls              \* calls of backfill_story_points made

cycleVars == <<changelog, status_changes, backlog_to_progress_count,
               cycle_times, status_start_times, next_change, current_time, cpc>>
forecastVars == <<op, arg, completed_per_day, num_days, target_count,
                  simulations, days_to_target, result, clock_reads,
                  completion_dates, error, raised_at, fpc>>
ticketVars == <<tickets, use_story_points, df, iqr_multiplier,
                filtered_tickets, removed_outliers, outlier_calls,
                selected_statuses, stats, terror, tpc>>
backfillVars == <<source_tickets, backfill_calls>>
vars == <<cycleVars, forecastVars, ticketVars, backfillVars>>

None == "None"

---------------------------------------------------------------------------
(* Bounds *)

MaxEvents == 3          \* items in one changelog
MaxTs == 3              \* timestamps are 1..MaxTs

\* Each status is accounted for on its own key of the two dicts, so one
\* status and one "other" status show every case of the bookkeeping; they
\* are the two the tracked transition of line 122 names.
Statuses == {"Backlog", "In Progress"}
Timestamps == 1 .. MaxTs
NowValues == 1 .. (MaxTs + 1)

\* history["items"] entries, each with its history's "created".  A
\* non-status item is never read beyond its field (line 116).
StatusItems ==
    [created : Timestamps, field : {"status"},
     fromString : Statuses, toString : Statuses]
OtherItems ==
    {[created |-> 1, field |-> "assignee",
      fromString |-> "Backlog", toString |-> "In Progress"]}
Items == StatusItems \cup OtherItems

SeqsUpTo(S, n) == UNION {[1 .. k -> S] : k \in 0 .. n}
Changelogs == SeqsUpTo(Items, MaxEvents)

EmptyDict == [s \in {} |-> 0]

---------------------------------------------------------------------------
(* calculate_cycle_times, src/jira_data.py:109-150 *)

RECURSIVE SumSeq(_)
SumSeq(s) == IF s = <<>> THEN 0 ELSE Head(s) + SumSeq(Tail(s))

RECURSIVE SumOver(_, _)
SumOver(f, S) ==
    IF S = {} THEN 0
    ELSE LET x == CHOOSE y \in S : TRUE IN f[x] + SumOver(f, S \ {x})

\* lines 114-120: the status items in encounter order
RECURSIVE CollectStatusChanges(_)
CollectStatusChanges(cl) ==
    IF cl = <<>> THEN <<>>
    ELSE LET item == Head(cl)
             rest == CollectStatusChanges(Tail(cl))
         IN IF item.field = "status"
            THEN <<(<<item.created, item.fromString, item.toString>>)>> \o rest
            ELSE rest

\* CountBacklogToProgress counting every status change that leaves Backlog
CountBacklogToProgress_FromBacklog(cl) ==
    Cardinality({i \in 1 .. Len(cl) :
        cl[i].field = "status" /\ cl[i].fromString = "Backlog"})

\* lines 122-123
RECURSIVE CountBacklogToProgress(_)
CountBacklogToProgress(cl) ==
    IF cl = <<>> THEN 0
    ELSE LET item == Head(cl)
         IN (IF /\ item.field = "status"
                /\ item.fromString = "Backlog"
                /\ item.toString = "In Progress"
             THEN 1 ELSE 0) + CountBacklogToProgress(Tail(cl))

\* list.sort(key=lambda x: x[0]) is stable: an element goes after every
\* element whose key is not greater.
RECURSIVE InsertByKey(_, _)
InsertByKey(sorted, x) ==
    IF sorted = <<>> THEN <<x>>
    ELSE IF Head(sorted)[1] <= x[1]
         THEN <<Head(sorted)>> \o InsertByKey(Tail(sorted), x)
         ELSE <<x>> \o sorted

RECURSIVE SortByTimestampFrom(_, _)
SortByTimestampFrom(sorted, rest) ==
    IF rest = <<>> THEN sorted
    ELSE SortByTimestampFrom(InsertByKey(sorted, Head(rest)), Tail(rest))

\* the collected changes left in encounter order
SortByTimestamp_Unsorted(changes) == changes

\* line 125
SortByTimestamp(changes) == SortByTimestampFrom(<<>>, changes)

\* d[k] += v if k in d else d[k] = v  (lines 133-136 and 145-148)
AddDuration(d, k, v) ==
    [s \in DOMAIN d \cup {k} |-> IF s = k
                                 THEN (IF k \in DOMAIN d THEN d[k] ELSE 0) + v
                                 ELSE d[s]]

RemoveKey(d, k) == [s \in DOMAIN d \ {k} |-> d[s]]

SetKey(d, k, v) == [s \in DOMAIN d \cup {k} |-> IF s = k THEN v ELSE d[s]]

\* CloseFromStatus recording a duration of zero for a from_status that has
\* no open interval
CloseFromStatus_ZeroEntry(st, change) ==
    LET timestamp == change[1]
        from_status == change[2]
        start == IF from_status \in DOMAIN st.status_start_times
                 THEN st.status_start_times[from_status] ELSE timestamp
    IN [cycle_times |->
            AddDuration(st.cycle_times, from_status, timestamp - start),
        status_start_times |-> RemoveKey(st.status_start_times, from_status)]

\* CloseFromStatus without the del of line 137: from_status stays open
CloseFromStatus_KeepOpen(st, change) ==
    LET timestamp == change[1]
        from_status == change[2]
    IN IF from_status \in DOMAIN st.status_start_times
       THEN [cycle_times |->
                AddDuration(st.cycle_times, from_status,
                            timestamp - st.status_start_times[from_status]),
             status_start_times |-> st.status_start_times]
       ELSE st

\* lines 131-137: close the open interval of from_status
CloseFromStatus(st, change) ==
    LET timestamp == change[1]
        from_status == change[2]
    IN IF from_status \in DOMAIN st.status_start_times
       THEN [cycle_times |->
                AddDuration(st.cycle_times, from_status,
                            timestamp - st.status_start_times[from_status]),
             status_start_times |->
                RemoveKey(st.status_start_times, from_status)]
       ELSE st

\* OpenToStatus keeping the timestamp of a to_status that is already open
OpenToStatus_KeepFirst(st, change) ==
    [cycle_times |-> st.cycle_times,
     status_start_times |->
        IF change[3] \in DOMAIN st.status_start_times
        THEN st.status_start_times
        ELSE SetKey(st.status_start_times, change[3], change[1])]

\* line 139: to_status is open from this timestamp
OpenToStatus(st, change) ==
    [cycle_times |-> st.cycle_times,
     status_start_times |-> SetKey(st.status_start_times, change[3], change[1])]

\* lines 130-139, one iteration
ProcessChange(st, change) == OpenToStatus(CloseFromStatus(st, change), change)

RECURSIVE ProcessChanges(_, _)
ProcessChanges(st, changes) ==
    IF changes = <<>> THEN st
    ELSE ProcessChanges(ProcessChange(st, Head(changes)), Tail(changes))

\* lines 143-148: every open status is credited up to current_time
CreditOpenStatuses(ct, starts, now) ==
    [s \in DOMAIN ct \cup DOMAIN starts |->
        (IF s \in DOMAIN ct THEN ct[s] ELSE 0)
        + (IF s \in DOMAIN starts THEN now - starts[s] ELSE 0)]

\* the cycle_times of line 150, for a changelog and a reading of the clock
CycleTimesOf(cl, now) ==
    LET st == ProcessChanges(
                [cycle_times |-> EmptyDict, status_start_times |-> EmptyDict],
                SortByTimestamp(CollectStatusChanges(cl)))
    IN CreditOpenStatuses(st.cycle_times, st.status_start_times, now)

CycleInit ==
    /\ changelog \in Changelogs
    /\ status_changes = <<>>
    /\ backlog_to_progress_count = 0
    /\ cycle_times = EmptyDict
    /\ status_start_times = EmptyDict
    /\ next_change = 1
    /\ current_time = None
    /\ cpc = "collect"

\* lines 110-128
CollectAndSort ==
    /\ cpc = "collect"
    /\ status_changes' = SortByTimestamp(CollectStatusChanges(changelog))
    /\ backlog_to_progress_count' = CountBacklogToProgress(changelog)
    /\ cycle_times' = EmptyDict
    /\ status_start_times' = EmptyDict
    /\ next_change' = 1
    /\ cpc' = "fold"
    /\ UNCHANGED <<changelog, current_time>>

\* lines 130-139
FoldChange ==
    /\ cpc = "fold"
    /\ next_change <= Len(status_changes)
    /\ LET st == ProcessChange(
                    [cycle_times |-> cycle_times,
                     status_start_times |-> status_start_times],
                    status_changes[next_change])
       IN /\ cycle_times' = st.cycle_times
          /\ status_start_times' = st.status_start_times
    /\ next_change' = next_change + 1
    /\ UNCHANGED <<changelog, status_changes, backlog_to_progress_count,
                   current_time, cpc>>

\* lines 141-150
CreditAndReturn ==
    /\ cpc = "fold"
    /\ next_change > Len(status_changes)
    /\ \E now \in NowValues :
          /\ current_time' = now
          /\ cycle_times' = CreditOpenStatuses(cycle_times, status_start_times, now)
    /\ cpc' = "done"
    /\ UNCHANGED <<changelog, status_changes, backlog_to_progress_count,
                   status_start_times, next_change>>

ForecastIdle ==
    /\ op = None
    /\ arg = <<>>
    /\ completed_per_day = <<>>
    /\ num_days = <<>>
    /\ target_count = <<>>
    /\ simulations = <<>>
    /\ days_to_target = <<>>
    /\ result = <<>>
    /\ clock_reads = <<>>
    /\ completion_dates = <<>>
    /\ error = None
    /\ raised_at = None
    /\ fpc = "idle"

TicketsIdle ==
    /\ tickets = <<>>
    /\ use_story_points = FALSE
    /\ df = <<>>
    /\ iqr_multiplier = 0
    /\ filtered_tickets = <<>>
    /\ removed_outliers = <<>>
    /\ outlier_calls = 0
    /\ selected_statuses = <<>>
    /\ stats = EmptyDict
    /\ terror = None
    /\ tpc = "idle"

BackfillIdle ==
    /\ source_tickets = <<>>
    /\ backfill_calls = 0

InitCycle == CycleInit /\ ForecastIdle /\ TicketsIdle /\ BackfillIdle

NextCycle ==
    \/ CollectAndSort /\ UNCHANGED <<forecastVars, ticketVars, backfillVars>>
    \/ FoldChange /\ UNCHANGED <<forecastVars, ticketVars, backfillVars>>
    \/ CreditAndReturn /\ UNCHANGED <<forecastVars, ticketVars, backfillVars>>

SpecCycle == InitCycle /\ [][NextCycle]_vars

---------------------------------------------------------------------------
(* Properties of calculate_cycle_times *)

\* the changelog with its items in the order p, a permutation of positions
Permuted(cl, p) == [i \in 1 .. Len(cl) |-> cl[p[i]]]

\* C1 (as claimed): calculate_cycle_times returns the same CycleTimeMap for
\* every permutation of the event list, lists with equal timestamps included.
C1_SortIndependence ==
    cpc = "done" =>
        \A p \in Permutations(1 .. Len(changelog)) :
            CycleTimesOf(Permuted(changelog, p), current_time) = cycle_times

\* positions, in the sorted list, of the events entering / leaving status s
Entering(s) == {i \in 1 .. Len(status_changes) : status_changes[i][3] = s}
Leaving(s) == {j \in 1 .. Len(status_changes) : status_changes[j][2] = s}

\* the next event after position i that leaves s (0: there is none)
NextLeaving(s, i) ==
    LET later == {j \in Leaving(s) : j > i}
    IN IF later = {} THEN 0
       ELSE CHOOSE j \in later : \A k \in later : j <= k

\* the length of the interval from event i to the next event leaving s
ClosedLength(s, i) ==
    IF NextLeaving(s, i) = 0 THEN 0
    ELSE status_changes[NextLeaving(s, i)][1] - status_changes[i][1]

\* s is still open after the last event, and the timestamp it is open from
StillOpen(s) == \E i \in Entering(s) : NextLeaving(s, i) = 0
OpenTimestamp(s) ==
    LET last == CHOOSE i \in Entering(s) : \A k \in Entering(s) : k <= i
    IN status_changes[last][1]

OpenLength(s) == IF StillOpen(s) THEN current_time - OpenTimestamp(s) ELSE 0

\* every entry into s starts an interval that ends at the next exit from s
AllIntervalsSum(s) ==
    SumOver([i \in Entering(s) |-> ClosedLength(s, i)], Entering(s))
    + OpenLength(s)

\* C4 (as claimed): CycleTimeMap[S] is the sum of the lengths of all
\* intervals that start at an event entering S and end at the next event
\* leaving S, plus the interval from S's open timestamp to now if S is
\* still open after the last event.
C4_AllEnteringIntervals ==
    cpc = "done" =>
        \A s \in DOMAIN cycle_times : cycle_times[s] = AllIntervalsSum(s)

\* entry i into s is superseded: s is entered again before it is left
Superseded(s, i) ==
    \E k \in Entering(s) :
        /\ i < k
        /\ NextLeaving(s, i) # 0 => k < NextLeaving(s, i)

LatestEntries(s) == {i \in Entering(s) : ~Superseded(s, i)}

LatestIntervalsSum(s) ==
    SumOver([i \in LatestEntries(s) |-> ClosedLength(s, i)], LatestEntries(s))
    + OpenLength(s)

\* C4 (amended): CycleTimeMap has an entry for exactly the statuses some
\* event enters, and CycleTimeMap[S] is the sum of the lengths of the
\* intervals that start at the latest entry into S before the next event
\* leaving S and end at that event (an entry into S followed by another
\* entry into S before any exit starts no interval), plus the interval from
\* S's open timestamp to now if S is still open after the last event; the
\* values of the map sum to the sum of these intervals.
C4_LatestEntryIntervals ==
    cpc = "done" =>
        /\ DOMAIN cycle_times = {s \in Statuses : Entering(s) # {}}
        /\ \A s \in DOMAIN cycle_times : cycle_times[s] = LatestIntervalsSum(s)
        /\ SumOver(cycle_times, DOMAIN cycle_times)
             = SumOver([s \in Statuses |-> LatestIntervalsSum(s)], Statuses)

\* a status entered twice before it is left, then left, then entered again
C4_Witness ==
    /\ cpc = "done"
    /\ \E s \in DOMAIN cycle_times :
          /\ \E i \in Entering(s) : Superseded(s, i) /\ NextLeaving(s, i) # 0
          /\ cycle_times[s] > 0

\* the changelog is the single event A -> B at some timestamp, A # B
SingleEvent ==
    /\ Len(changelog) = 1
    /\ changelog[1].field = "status"
    /\ changelog[1].fromString # changelog[1].toString

\* C5: for the single event A -> B at t (A # B) the map returned is exactly
\* {B: now - t}: nothing is recorded for A.
C5_SingleEvent ==
    (cpc = "done" /\ SingleEvent) =>
        cycle_times = (changelog[1].toString :> (current_time - changelog[1].created))

C5_Witness ==
    /\ cpc = "done"
    /\ SingleEvent
    /\ current_time > changelog[1].created

---------------------------------------------------------------------------
(* Bounds of the forecaster *)

NumSimulations == 3     \* self.num_simulations
MaxSeriesLen == 2       \* days of history
MaxDaily == 3           \* completed items on one day are 0..MaxDaily
MaxDays == 3            \* the horizon is at most MaxDays
MaxTarget == 3          \* the target is at most MaxTarget

\* an argument that may be None: Nothing, or Some(value)
Nothing == <<>>
Some(x) == <<x>>
IsNothing(v) == v = <<>>
ValueOf(v) == v[1]
Optional(S) == {Nothing} \cup {Some(x) : x \in S}

Range(f) == {f[i] : i \in DOMAIN f}

HistoricalSeries == SeqsUpTo(0 .. MaxDaily, MaxSeriesLen)
DaysArgs == -1 .. MaxDays
TargetArgs == -1 .. MaxTarget

\* the calendar day of a reading of datetime.now(): the day the call is
\* made on, or the next one
ClockDays == {0, 1}

---------------------------------------------------------------------------
(* MonteCarloForecaster, src/forecasting.py *)

\* forecast_completed_items, line 36
forecast_completed_items(n) == [num_days |-> Some(n), target_count |-> Nothing]

\* forecast_completion_time, line 41
forecast_completion_time(item_count) ==
    [num_days |-> Nothing, target_count |-> Some(item_count)]

\* forecast_backlog, line 46
forecast_backlog(backlog_size) ==
    [num_days |-> Nothing, target_count |-> Some(backlog_size)]

\* the arguments run_simulation is entered with
RunSimulationArgs(method, a) ==
    CASE method = "forecast_completed_items" -> forecast_completed_items(a[1])
      [] method = "forecast_completion_time" -> forecast_completion_time(a[1])
      [] method = "forecast_backlog" -> forecast_backlog(a[1])
      [] OTHER -> [num_days |-> a[1], target_count |-> a[2]]

Calls ==
    {<<"forecast_completed_items", <<n>>>> : n \in DaysArgs}
    \cup {<<"forecast_completion_time", <<c>>>> : c \in TargetArgs}
    \cup {<<"forecast_backlog", <<c>>>> : c \in TargetArgs}
    \cup {<<"run_simulation", <<n, c>>>> :
             n \in Optional(DaysArgs), c \in Optional(TargetArgs)}

\* int(x / y) for y > 0: Python's int() truncates toward zero
TruncDiv(x, y) == IF x >= 0 THEN x \div y ELSE -((-x) \div y)

\* line 20: int(2 * target_count / np.mean(completed_per_day)), the mean
\* being SumSeq(series) / Len(series) > 0
HeuristicHorizon(series, target) ==
    TruncDiv(2 * target * Len(series), SumSeq(series))

\* line 25: np.cumsum along one row
CumSum(row) == [j \in 1 .. Len(row) |-> SumSeq(SubSeq(row, 1, j))]

\* line 28: np.argmax(row >= target_count) is the index (from 0) of the
\* first True, and 0 when no element is True
FirstIndexReached(row, target) ==
    LET hits == {j \in 1 .. Len(row) : row[j] >= target}
    IN IF hits = {} THEN 0
       ELSE (CHOOSE j \in hits : \A k \in hits : j <= k) - 1

\* ascending order of a list of integers
RECURSIVE InsertAscending(_, _)
InsertAscending(sorted, x) ==
    IF sorted = <<>> THEN <<x>>
    ELSE IF Head(sorted) <= x
         THEN <<Head(sorted)>> \o InsertAscending(Tail(sorted), x)
         ELSE <<x>> \o sorted

RECURSIVE Ascending(_)
Ascending(values) ==
    IF values = <<>> THEN <<>>
    ELSE InsertAscending(Ascending(Tail(values)), Head(values))

\* np.quantile(values, q / 100), linear interpolation (numpy's default), in
\* hundredths: the virtual index is (n - 1) * q / 100
LinearQuantile(values, q) ==
    LET a == Ascending(values)
        n == Len(a)
        lo == ((n - 1) * q) \div 100
        g == ((n - 1) * q) % 100
        hi == IF lo + 1 < n THEN lo + 1 ELSE n - 1
    IN 100 * a[lo + 1] + g * (a[hi + 1] - a[lo + 1])

\* np.quantile(values, q / 100, method="lower"), in hundredths: the element
\* at index floor((n - 1) * q / 100)
LowerQuantile(values, q) ==
    LET a == Ascending(values)
        n == Len(a)
    IN 100 * a[(((n - 1) * q) \div 100) + 1]

\* the quantiles of the days to the target, listed from the most confident
TargetQuantiles_Descending == <<95, 85, 75, 50>>

\* the quantiles of the completed count, listed in ascending order
HorizonQuantiles_Ascending == <<5, 15, 25, 50>>

\* line 29
TargetQuantiles == <<50, 75, 85, 95>>
\* line 32
HorizonQuantiles == <<50, 25, 15, 5>>

\* lines 28-29
DaysToTarget(sims, target) ==
    [i \in 1 .. Len(sims) |-> FirstIndexReached(sims[i], target)]

QuantilesOfDays(days) ==
    [k \in 1 .. 4 |-> LinearQuantile(days, TargetQuantiles[k])]

\* lines 31-33: the quantiles of each day over the trials, of which the
\* last day's is returned
QuantilesOfLastDay(sims, d) ==
    [k \in 1 .. 4 |->
        LowerQuantile([i \in 1 .. Len(sims) |-> sims[i][d]], HorizonQuantiles[k])]

\* CompletionDate with round(days) in place of int(days)
CompletionDate_Rounded(today, days) == today + ((days + 50) \div 100)

\* lines 47-50: (datetime.now() + timedelta(days=int(days))).date()
CompletionDate(today, days) == today + (days \div 100)

ForecastInit ==
    /\ completed_per_day \in HistoricalSeries
    /\ \E c \in Calls : op = c[1] /\ arg = c[2]
    \* the horizon line 20 would choose is within the bound
    /\ LET a == RunSimulationArgs(op, arg)
       IN (/\ IsNothing(a.num_days)
           /\ ~IsNothing(a.target_count)
           /\ SumSeq(completed_per_day) > 0)
          => HeuristicHorizon(completed_per_day, ValueOf(a.target_count)) <= MaxDays
    /\ num_days = Nothing
    /\ target_count = Nothing
    /\ simulations = <<>>
    /\ days_to_target = <<>>
    /\ result = <<>>
    /\ clock_reads = <<>>
    /\ completion_dates = <<>>
    /\ error = None
    /\ raised_at = None
    /\ fpc = "call"

\* the method enters run_simulation; lines 14-17
Call ==
    /\ fpc = "call"
    /\ LET a == RunSimulationArgs(op, arg)
       IN /\ num_days' = a.num_days
          /\ target_count' = a.target_count
          /\ IF IsNothing(a.num_days) /\ IsNothing(a.target_count)
             THEN error' = "ValueError" /\ raised_at' = "entry" /\ fpc' = "raised"
             ELSE error' = error /\ raised_at' = raised_at /\ fpc' = "horizon"
    /\ UNCHANGED <<op, arg, completed_per_day, simulations, days_to_target,
                   result, clock_reads, completion_dates>>

\* lines 19-20.  The mean of an empty series is nan and int(nan) raises
\* ValueError; a mean of 0 makes the quotient nan (target 0: ValueError) or
\* infinite (OverflowError).
ChooseHorizon ==
    /\ fpc = "horizon"
    /\ IF ~IsNothing(num_days)
       THEN num_days' = num_days /\ error' = error
            /\ raised_at' = raised_at /\ fpc' = "sample"
       ELSE IF completed_per_day = <<>>
                 \/ (SumSeq(completed_per_day) = 0 /\ ValueOf(target_count) = 0)
       THEN num_days' = num_days /\ error' = "ValueError"
            /\ raised_at' = "horizon" /\ fpc' = "raised"
       ELSE IF SumSeq(completed_per_day) = 0
       THEN num_days' = num_days /\ error' = "OverflowError"
            /\ raised_at' = "horizon" /\ fpc' = "raised"
       ELSE num_days' = Some(HeuristicHorizon(completed_per_day,
                                              ValueOf(target_count)))
            /\ error' = error /\ raised_at' = raised_at /\ fpc' = "sample"
    /\ UNCHANGED <<op, arg, completed_per_day, target_count, simulations,
                   days_to_target, result, clock_reads, completion_dates>>

\* lines 22-24: np.random.choice draws every cell from the series,
\* independently; it raises ValueError for a negative dimension, and for an
\* empty series unless no sample is to be drawn.
Sample ==
    /\ fpc = "sample"
    /\ LET d == ValueOf(num_days)
       IN IF d < 0 \/ (completed_per_day = <<>> /\ NumSimulations * d # 0)
          THEN simulations' = simulations /\ error' = "ValueError"
               /\ raised_at' = "sample" /\ fpc' = "raised"
          ELSE /\ simulations' \in
                    [1 .. NumSimulations -> [1 .. d -> Range(completed_per_day)]]
               /\ error' = error /\ raised_at' = raised_at /\ fpc' = "cumsum"
    /\ UNCHANGED <<op, arg, completed_per_day, num_days, target_count,
                   days_to_target, result, clock_reads, completion_dates>>

\* line 25
CumulativeSum ==
    /\ fpc = "cumsum"
    /\ simulations' = [i \in 1 .. NumSimulations |-> CumSum(simulations[i])]
    /\ fpc' = "reduce"
    /\ UNCHANGED <<op, arg, completed_per_day, num_days, target_count,
                   days_to_target, result, clock_reads, completion_dates,
                   error, raised_at>>

\* lines 27-33.  With no day in the horizon np.argmax raises ValueError
\* (empty sequence) and [:, -1] raises IndexError.
Percentiles ==
    /\ fpc = "reduce"
    /\ LET d == ValueOf(num_days)
           after == IF op = "forecast_backlog" THEN "dates" ELSE "returned"
       IN IF d = 0
          THEN /\ error' = IF IsNothing(target_count)
                           THEN "IndexError" ELSE "ValueError"
               /\ raised_at' = "reduce" /\ fpc' = "raised"
               /\ UNCHANGED <<days_to_target, result>>
          ELSE IF ~IsNothing(target_count)
          THEN /\ days_to_target' = DaysToTarget(simulations, ValueOf(target_count))
               /\ result' = QuantilesOfDays(days_to_target')
               /\ fpc' = after
               /\ UNCHANGED <<error, raised_at>>
          ELSE /\ result' = QuantilesOfLastDay(simulations, d)
               /\ fpc' = after
               /\ UNCHANGED <<days_to_target, error, raised_at>>
    /\ UNCHANGED <<op, arg, completed_per_day, num_days, target_count,
                   simulations, clock_reads, completion_dates>>

\* lines 47-51: one reading of the clock per date, none before the one
\* before it
BacklogDates ==
    /\ fpc = "dates"
    /\ \E reads \in [1 .. 4 -> ClockDays] :
          /\ \A k \in 1 .. 3 : reads[k] <= reads[k + 1]
          /\ clock_reads' = reads
          /\ completion_dates' =
                [k \in 1 .. 4 |-> CompletionDate(reads[k], result[k])]
    /\ fpc' = "returned"
    /\ UNCHANGED <<op, arg, completed_per_day, num_days, target_count,
                   simulations, days_to_target, result, error, raised_at>>

CycleIdle ==
    /\ changelog = <<>>
    /\ status_changes = <<>>
    /\ backlog_to_progress_count = 0
    /\ cycle_times = EmptyDict
    /\ status_start_times = EmptyDict
    /\ next_change = 1
    /\ current_time = None
    /\ cpc = "idle"

InitForecast == ForecastInit /\ CycleIdle /\ TicketsIdle /\ BackfillIdle

NextForecast ==
    \/ Call /\ UNCHANGED <<cycleVars, ticketVars, backfillVars>>
    \/ ChooseHorizon /\ UNCHANGED <<cycleVars, ticketVars, backfillVars>>
    \/ Sample /\ UNCHANGED <<cycleVars, ticketVars, backfillVars>>
    \/ CumulativeSum /\ UNCHANGED <<cycleVars, ticketVars, backfillVars>>
    \/ Percentiles /\ UNCHANGED <<cycleVars, ticketVars, backfillVars>>
    \/ BacklogDates /\ UNCHANGED <<cycleVars, ticketVars, backfillVars>>

SpecForecast == InitForecast /\ [][NextForecast]_vars

---------------------------------------------------------------------------
(* Properties of the forecaster *)

CeilDiv(x, y) == (x + y - 1) \div y

\* every day of the series has the value v
ConstantSeries(v) ==
    /\ completed_per_day # <<>>
    /\ \A i \in 1 .. Len(completed_per_day) : completed_per_day[i] = v

AllZeroSeries == \A i \in 1 .. Len(completed_per_day) : completed_per_day[i] = 0

\* run_simulation is entered with a num_days <= 0 or a target_count <= 0
NonPositiveArgument ==
    LET a == RunSimulationArgs(op, arg)
    IN \/ ~IsNothing(a.num_days) /\ ValueOf(a.num_days) <= 0
       \/ ~IsNothing(a.target_count) /\ ValueOf(a.target_count) <= 0

\* C2 (as claimed): for a constant series of value v > 0 and a target > 0,
\* forecast_completion_time returns ceil(target / v) for each of the four
\* percentiles.
C2_ConstantSeries ==
    \A v \in 1 .. MaxDaily :
        (/\ fpc = "returned"
         /\ op = "forecast_completion_time"
         /\ ConstantSeries(v)
         /\ arg[1] > 0)
        => result = [k \in 1 .. 4 |-> 100 * CeilDiv(arg[1], v)]

\* run_simulation, entered with a series that is not all zero and no
\* argument that is not positive, has computed the days to the target of
\* every trial
DaysComputed ==
    /\ fpc \in {"dates", "returned"}
    /\ ~IsNothing(target_count)
    /\ ~AllZeroSeries
    /\ ~NonPositiveArgument

\* C3 (as claimed): a trial whose cumulative sum never reaches target_count
\* within the horizon is assigned the last day index, num_days - 1, and every
\* other trial the first day index at which its cumulative sum is >=
\* target_count.
C3_DaysToTarget ==
    DaysComputed =>
        \A i \in 1 .. NumSimulations :
            LET row == simulations[i]
                t == ValueOf(target_count)
            IN IF \E j \in 1 .. Len(row) : row[j] >= t
               THEN /\ row[days_to_target[i] + 1] >= t
                    /\ \A j \in 1 .. days_to_target[i] : row[j] < t
               ELSE days_to_target[i] = ValueOf(num_days) - 1

Forecasts == {"forecast_completed_items", "forecast_completion_time",
              "forecast_backlog"}

\* C6 (as claimed): with an empty or all-zero series none of the three
\* forecasts returns four values.
C6_NoForecastWithoutData ==
    (op \in Forecasts /\ AllZeroSeries) => fpc # "returned"

\* C7 (as claimed): run_simulation with num_days <= 0 or target_count <= 0
\* is rejected at entry: it goes no further than the entry, where it raises,
\* and returns nothing.
C7_RejectedAtEntry ==
    NonPositiveArgument =>
        /\ fpc \in {"call", "raised"}
        /\ fpc = "raised" => raised_at = "entry"

\* C8: the four values forecast_completed_items returns, in the order
\* 50/75/85/95, are non-increasing, and each is the last day's cumulative
\* count of one of the trials.
C8_CompletedItemsNonIncreasing ==
    (fpc = "returned" /\ op = "forecast_completed_items") =>
        /\ Len(result) = 4
        /\ \A k \in 1 .. 3 : result[k] >= result[k + 1]
        /\ \A k \in 1 .. 4 : \E i \in 1 .. NumSimulations :
              result[k] = 100 * simulations[i][arg[1]]

C8_Witness ==
    /\ fpc = "returned"
    /\ op = "forecast_completed_items"
    /\ arg[1] >= 2
    /\ result[1] > result[4]

\* C9: the four values forecast_completion_time returns, in the order
\* 50/75/85/95, are non-decreasing.
C9_CompletionTimeNonDecreasing ==
    (fpc = "returned" /\ op = "forecast_completion_time") =>
        /\ Len(result) = 4
        /\ \A k \in 1 .. 3 : result[k] <= result[k + 1]

C9_Witness ==
    /\ fpc = "returned"
    /\ op = "forecast_completion_time"
    /\ SumSeq(completed_per_day) > 0
    /\ arg[1] > 0
    /\ result[1] < result[4]

\* C10: forecast_backlog returns the day counts forecast_completion_time
\* computes for the target backlog_size from the same samples, with four
\* dates, each the date of its reading of the clock plus its day count
\* truncated to whole days; the dates are in non-decreasing order.
C10_BacklogDates ==
    (fpc = "returned" /\ op = "forecast_backlog") =>
        /\ forecast_completion_time(arg[1]) =
              [num_days |-> Nothing, target_count |-> target_count]
        /\ result = QuantilesOfDays(DaysToTarget(simulations, arg[1]))
        /\ Len(completion_dates) = 4
        /\ \A k \in 1 .. 4 :
              LET whole == completion_dates[k] - clock_reads[k]
              IN 100 * whole <= result[k] /\ result[k] < 100 * (whole + 1)
        /\ \A k \in 1 .. 3 : completion_dates[k] <= completion_dates[k + 1]

C10_Witness ==
    /\ fpc = "returned"
    /\ op = "forecast_backlog"
    /\ \E k \in 1 .. 4 : result[k] % 100 >= 50
    /\ completion_dates[1] < completion_dates[4]


---------------------------------------------------------------------------
(* Further properties of calculate_cycle_times *)

\* the reading of the clock is not earlier than any status event
NowNotBeforeEvents ==
    \A i \in 1 .. Len(status_changes) : status_changes[i][1] <= current_time

\* C18: for every event list and every now that is not earlier than the
\* latest event timestamp, every duration of the returned map is
\* non-negative.
C18_NonNegativeDurations ==
    (cpc = "done" /\ NowNotBeforeEvents) =>
        \A s \in DOMAIN cycle_times : cycle_times[s] >= 0

\* events given latest first, an interval closed and another credited
C18_Witness ==
    /\ cpc = "done"
    /\ NowNotBeforeEvents
    /\ Len(changelog) >= 2
    /\ changelog[1].field = "status"
    /\ changelog[2].field = "status"
    /\ changelog[1].created > changelog[2].created
    /\ status_start_times # EmptyDict
    /\ \E s \in DOMAIN cycle_times :
          s \notin DOMAIN status_start_times /\ cycle_times[s] > 0


---------------------------------------------------------------------------
(* The heuristic horizon of run_simulation *)

\* run_simulation was entered with a target and no horizon, and has ended
HorizonWasChosen ==
    /\ fpc \in {"dates", "returned", "raised"}
    /\ IsNothing(RunSimulationArgs(op, arg).num_days)
    /\ ~IsNothing(target_count)

\* C19 (as claimed): with no horizon supplied the horizon is
\* floor(2 * target_count / mean); for a series of positive mean and a
\* positive target it is at least 1 and four day indices within
\* [0, horizon - 1] are returned; for an empty series or a mean of zero the
\* call fails at the choice of the horizon.
C19_HeuristicHorizon ==
    HorizonWasChosen =>
        LET total == SumSeq(completed_per_day)
            n == Len(completed_per_day)
            target == ValueOf(target_count)
        IN IF n = 0 \/ total = 0
           THEN fpc = "raised" /\ raised_at = "horizon"
           ELSE target > 0 =>
                  /\ fpc # "raised"
                  /\ LET h == ValueOf(num_days)
                     IN /\ h * total <= 2 * target * n
                        /\ 2 * target * n < (h + 1) * total
                        /\ h >= 1
                        /\ \A k \in 1 .. 4 :
                              0 <= result[k] /\ result[k] <= 100 * (h - 1)


---------------------------------------------------------------------------
(* Tickets *)

MaxTickets == 3         \* tickets in one list
MaxDate == 3            \* completion dates are the days 1..MaxDate
MaxPoints == 2          \* story points are 1..MaxPoints

Dates == 1 .. MaxDate
Points == 1 .. MaxPoints

\* the fields of an issue that its processed dict depends on, each drawn
\* from the given set
IssueFields(PointsOf, DatesOf, AssigneesOf, TimesOf, LengthsOf, CountsOf) ==
    [story_points : PointsOf,
     completed_date : DatesOf,
     assignee : AssigneesOf,
     cycle_times : TimesOf,
     description_length : LengthsOf,
     acceptance_criteria_length : LengthsOf,
     backlog_to_progress : CountsOf]

\* process_issues, src/jira_data.py:93-104: the dict made of one issue.  A
\* field that is None in the dict is Nothing here; the key is the ticket's
\* number.
ProcessedIssue(key, issue) ==
    [key |-> key,
     story_points |-> issue.story_points,
     created_date |-> 1,
     completed_date |-> issue.completed_date,
     assignee |-> issue.assignee,
     description_length |-> issue.description_length,
     acceptance_criteria |-> "",
     acceptance_criteria_length |-> issue.acceptance_criteria_length,
     cycle_times |-> issue.cycle_times,
     backlog_to_progress |-> issue.backlog_to_progress]

\* process_issues, src/jira_data.py:90-107: one iteration of the loop
\* appends the dict of the next issue, one of the given issues; the list
\* has at most max tickets
ProcessIssue(Issues, max) ==
    /\ tpc = "process"
    /\ Len(tickets) < max
    /\ \E issue \in Issues :
          tickets' = Append(tickets, ProcessedIssue(Len(tickets) + 1, issue))
    /\ UNCHANGED <<use_story_points, df, iqr_multiplier, filtered_tickets,
                   removed_outliers, outlier_calls, selected_statuses, stats,
                   terror, tpc>>

---------------------------------------------------------------------------
(* prepare_data, src/jira_data.py:248-282 *)

\* line 251
ClosedTickets(ts) == SelectSeq(ts, LAMBDA t : ~IsNothing(t.completed_date))

CompletedDates(ts) == {ValueOf(ts[i].completed_date) : i \in 1 .. Len(ts)}

\* lines 257-258
EarliestDate(closed) ==
    CHOOSE d \in CompletedDates(closed) : \A e \in CompletedDates(closed) : d <= e
LatestDate(closed) ==
    CHOOSE d \in CompletedDates(closed) : \A e \in CompletedDates(closed) : d >= e

\* line 263: pd.date_range(start, end, freq="D"), both ends included
DateRange(start, end) == [i \in 1 .. (end - start + 1) |-> start + i - 1]

\* IncrementAt storing the value in place of adding it
IncrementAt_Assign(column, i, value) == [column EXCEPT ![i] = value]

\* line 272: df.at[closed_timestamp, "Completed"] += value
IncrementAt(column, i, value) == [column EXCEPT ![i] = column[i] + value]

\* lines 268-274: the loop over the closed tickets
RECURSIVE CountCompleted(_, _, _, _)
CountCompleted(column, index, closed, by_points) ==
    IF closed = <<>> THEN column
    ELSE LET ticket == Head(closed)
             closed_timestamp == ValueOf(ticket.completed_date)
             at == {i \in 1 .. Len(index) : index[i] = closed_timestamp}
             value == IF by_points THEN ValueOf(ticket.story_points) ELSE 1
         IN CountCompleted(
                IF at # {}
                THEN IncrementAt(column, CHOOSE i \in at : TRUE, value)
                ELSE column,
                index, Tail(closed), by_points)

\* line 271 adds None to an integer when a closed ticket has no story points
AddsNone(ts, by_points) ==
    /\ by_points
    /\ \E i \in 1 .. Len(ts) :
          ~IsNothing(ts[i].completed_date) /\ IsNothing(ts[i].story_points)

\* the frame returned by line 282, for tickets of which one is closed
Frame(ts, by_points) ==
    LET closed == ClosedTickets(ts)
        index == DateRange(EarliestDate(closed), LatestDate(closed))
        completed == CountCompleted([i \in 1 .. Len(index) |-> 0],
                                    index, closed, by_points)
    IN [c \in {"Date", "Completed", "Cumulative Completed"} |->
           CASE c = "Date" -> index
             [] c = "Completed" -> completed
             [] OTHER -> CumSum(completed)]

\* what prepare_data returns: None, or the frame
PrepareDataOf(ts, by_points) ==
    IF ClosedTickets(ts) = <<>> THEN Nothing ELSE Some(Frame(ts, by_points))

ThroughputInit ==
    /\ tickets = <<>>
    /\ use_story_points \in BOOLEAN
    /\ df = Nothing
    /\ iqr_multiplier = 0
    /\ filtered_tickets = <<>>
    /\ removed_outliers = <<>>
    /\ outlier_calls = 0
    /\ selected_statuses = <<>>
    /\ stats = EmptyDict
    /\ terror = None
    /\ tpc = "process"

\* prepare_data is called with the list process_issues returned
PrepareData ==
    /\ tpc = "process"
    /\ IF ClosedTickets(tickets) # <<>> /\ AddsNone(tickets, use_story_points)
       THEN df' = df /\ terror' = "TypeError" /\ tpc' = "raised"
       ELSE /\ df' = PrepareDataOf(tickets, use_story_points)
            /\ terror' = terror
            /\ tpc' = "returned"
    /\ UNCHANGED <<tickets, use_story_points, iqr_multiplier, filtered_tickets,
                   removed_outliers, outlier_calls, selected_statuses, stats>>

InitThroughput == ThroughputInit /\ CycleIdle /\ ForecastIdle /\ BackfillIdle

NextThroughput ==
    \/ ProcessIssue(IssueFields(Optional(Points), Optional(Dates), {Nothing},
                                {EmptyDict}, {0}, {0}), MaxTickets)
          /\ UNCHANGED <<cycleVars, forecastVars, backfillVars>>
    \/ PrepareData /\ UNCHANGED <<cycleVars, forecastVars, backfillVars>>

SpecThroughput == InitThroughput /\ [][NextThroughput]_vars

\* the tickets completed on day d
CompletedOn(d) ==
    {i \in 1 .. Len(tickets) : tickets[i].completed_date = Some(d)}

\* C11: for tickets of which one at least is completed, counted by item,
\* the series has one row for every calendar day from the earliest to the
\* latest completion date and no other, (latest - earliest) + 1 rows in
\* all; Completed is the number of tickets completed on the row's day (0 on
\* a day without completion), Cumulative Completed is its running sum; the
\* series is the same for every order of the tickets.
C11_DailySeries ==
    (tpc = "returned" /\ ~use_story_points /\ ClosedTickets(tickets) # <<>>) =>
        /\ ~IsNothing(df)
        /\ LET frame == ValueOf(df)
               days == CompletedDates(ClosedTickets(tickets))
               rows == 1 .. Len(frame["Date"])
           IN /\ \E lo \in days, hi \in days :
                    /\ \A d \in days : lo <= d /\ d <= hi
                    /\ Len(frame["Date"]) = hi - lo + 1
                    /\ \A r \in rows : frame["Date"][r] = lo + r - 1
              /\ Len(frame["Completed"]) = Len(frame["Date"])
              /\ Len(frame["Cumulative Completed"]) = Len(frame["Date"])
              /\ \A r \in rows :
                    /\ frame["Completed"][r] =
                          Cardinality(CompletedOn(frame["Date"][r]))
                    /\ frame["Cumulative Completed"][r] =
                          frame["Completed"][r]
                          + (IF r = 1 THEN 0
                             ELSE frame["Cumulative Completed"][r - 1])
        /\ \A p \in Permutations(1 .. Len(tickets)) :
              PrepareDataOf(Permuted(tickets, p), FALSE) = df

\* completions on days D, D, D + 2, the latest given first
C11_Witness ==
    /\ tpc = "returned"
    /\ ~use_story_points
    /\ ~IsNothing(df)
    /\ ValueOf(df)["Completed"] = <<2, 0, 1>>
    /\ ValueOf(df)["Cumulative Completed"] = <<2, 2, 3>>
    /\ tickets[1].completed_date = Some(ValueOf(df)["Date"][3])


---------------------------------------------------------------------------
(* remove_outliers, src/main.py:86-128 *)

MaxDuration == 2        \* a recorded status duration is 1..MaxDuration
MaxOutlierCalls == 2    \* calls of remove_outliers on one list

Durations == 1 .. MaxDuration

\* the cycle_times dicts of a ticket: any statuses, any durations
CycleTimesDicts == UNION {[S -> Durations] : S \in SUBSET Statuses}

\* iqr_multiplier in halves: 0, and the default 1.5
IqrMultipliers == {0, 3}

\* lines 98-102: the durations recorded for a status, in ticket order
RECURSIVE TimesOfStatus(_, _)
TimesOfStatus(ts, status) ==
    IF ts = <<>> THEN <<>>
    ELSE (IF status \in DOMAIN Head(ts).cycle_times
          THEN <<Head(ts).cycle_times[status]>> ELSE <<>>)
         \o TimesOfStatus(Tail(ts), status)

\* np.percentile(data, q) for q a multiple of 25, in quarters: linear
\* interpolation at the virtual index (n - 1) * q / 100
Percentile(data, q) ==
    LET a == Ascending(data)
        n == Len(a)
        at == (n - 1) * (q \div 25)
        lo == at \div 4
        g == at % 4
        hi == IF lo + 1 < n THEN lo + 1 ELSE n - 1
    IN 4 * a[lo + 1] + g * (a[hi + 1] - a[lo + 1])

\* lines 89-94, in eighths, for a multiplier in halves
calculate_iqr_bounds(data, multiplier) ==
    LET q1 == Percentile(data, 25)
        q3 == Percentile(data, 75)
        iqr == q3 - q1
    IN [lower_bound |-> 2 * q1 - multiplier * iqr,
        upper_bound |-> 2 * q3 + multiplier * iqr]

\* lines 104-105: the bounds of each status, from the durations collected
\* for it
RECURSIVE BoundsOfStatuses(_, _, _)
BoundsOfStatuses(all_statuses, ts, multiplier) ==
    IF all_statuses = {} THEN EmptyDict
    ELSE LET status == CHOOSE s \in all_statuses : TRUE
             times == TimesOfStatus(ts, status)
         IN (status :> calculate_iqr_bounds(times, multiplier))
            @@ BoundsOfStatuses(all_statuses \ {status}, ts, multiplier)

\* lines 96-105: the statuses are those some ticket records
StatusBounds(ts, multiplier) ==
    BoundsOfStatuses(UNION {DOMAIN ts[i].cycle_times : i \in 1 .. Len(ts)},
                     ts, multiplier)

\* ExceedsUpper that also takes a duration equal to the bound
ExceedsUpper_Inclusive(seconds, bounds) == 8 * seconds >= bounds.upper_bound

\* line 114
ExceedsUpper(seconds, bounds) == 8 * seconds > bounds.upper_bound

\* IsOutlier asking every recorded duration to exceed its bound
IsOutlier_EveryStatus(ticket, status_bounds) ==
    \A status \in DOMAIN ticket.cycle_times :
        ExceedsUpper(ticket.cycle_times[status], status_bounds[status])

\* lines 110-116
IsOutlier(ticket, status_bounds) ==
    \E status \in DOMAIN ticket.cycle_times :
        ExceedsUpper(ticket.cycle_times[status], status_bounds[status])

\* lines 108-125: the two lists, each in the order of the tickets
FilterByBounds(ts, status_bounds) ==
    [filtered_tickets |->
        SelectSeq(ts, LAMBDA t : ~IsOutlier(t, status_bounds)),
     removed_outliers |->
        SelectSeq(ts, LAMBDA t : IsOutlier(t, status_bounds))]

\* what remove_outliers returns
RemoveOutliersOf(ts, multiplier) ==
    FilterByBounds(ts, StatusBounds(ts, multiplier))

OutliersInit ==
    /\ tickets = <<>>
    /\ use_story_points = FALSE
    /\ df = Nothing
    /\ iqr_multiplier \in IqrMultipliers
    /\ filtered_tickets = <<>>
    /\ removed_outliers = <<>>
    /\ outlier_calls = 0
    /\ selected_statuses = <<>>
    /\ stats = EmptyDict
    /\ terror = None
    /\ tpc = "process"

\* remove_outliers is called with the list process_issues returned, or
\* again with the list it returned
RemoveOutliers ==
    /\ tpc \in {"process", "filtered"}
    /\ outlier_calls < MaxOutlierCalls
    /\ LET argument == IF outlier_calls = 0 THEN tickets ELSE filtered_tickets
           returned == RemoveOutliersOf(argument, iqr_multiplier)
       IN /\ tickets' = argument
          /\ filtered_tickets' = returned.filtered_tickets
          /\ removed_outliers' = returned.removed_outliers
    /\ outlier_calls' = outlier_calls + 1
    /\ tpc' = "filtered"
    /\ UNCHANGED <<use_story_points, df, iqr_multiplier, selected_statuses,
                   stats, terror>>

InitOutliers == OutliersInit /\ CycleIdle /\ ForecastIdle /\ BackfillIdle

NextOutliers ==
    \/ ProcessIssue(IssueFields({Nothing}, {Nothing}, {Nothing},
                                CycleTimesDicts, {0}, {0}), MaxTickets)
          /\ UNCHANGED <<cycleVars, forecastVars, backfillVars>>
    \/ RemoveOutliers /\ UNCHANGED <<cycleVars, forecastVars, backfillVars>>

SpecOutliers == InitOutliers /\ [][NextOutliers]_vars


\* 8 * (Q3 + m * (Q3 - Q1)) over the durations all tickets of the call
\* record for the status, Q1 and Q3 their 25th and 75th percentiles
UpperBoundOf(status) ==
    LET times == TimesOfStatus(tickets, status)
        q1 == Percentile(times, 25)
        q3 == Percentile(times, 75)
    IN 2 * q3 + iqr_multiplier * (q3 - q1)

\* the keys of the tickets whose duration in the status is strictly above
\* the upper bound of the status
AboveUpperBound(status) ==
    LET upper_bound == UpperBoundOf(status)
    IN {tickets[i].key : i \in {j \in 1 .. Len(tickets) :
           /\ status \in DOMAIN tickets[j].cycle_times
           /\ 8 * tickets[j].cycle_times[status] > upper_bound}}

Occurrences(list, t) == Cardinality({j \in 1 .. Len(list) : list[j] = t})

\* C12: remove_outliers splits its input into the retained and the excluded
\* list: every ticket is in exactly one of them, each list is in input
\* order, and a ticket is excluded exactly when one of its durations is
\* strictly above Q3 + m * (Q3 - Q1) of its status over all input tickets;
\* a duration below the lower bound excludes no ticket.
C12_OutlierPartition ==
    outlier_calls >= 1 =>
      LET excluded == UNION {AboveUpperBound(status) : status \in Statuses}
      IN
        /\ filtered_tickets = SelectSeq(tickets, LAMBDA t : t.key \notin excluded)
        /\ removed_outliers = SelectSeq(tickets, LAMBDA t : t.key \in excluded)
        /\ \A i \in 1 .. Len(tickets) :
              Occurrences(filtered_tickets, tickets[i])
              + Occurrences(removed_outliers, tickets[i]) = 1

\* a ticket is excluded, a later one is retained, and a retained ticket has a
\* duration below the lower bound of its status
C12_Witness ==
    /\ outlier_calls = 1
    /\ \E i, j \in 1 .. Len(tickets) :
          /\ i < j
          /\ Occurrences(removed_outliers, tickets[i]) = 1
          /\ Occurrences(filtered_tickets, tickets[j]) = 1
    /\ \E j \in 1 .. Len(filtered_tickets) :
          \E status \in DOMAIN filtered_tickets[j].cycle_times :
              8 * filtered_tickets[j].cycle_times[status] <
                 StatusBounds(tickets, iqr_multiplier)[status].lower_bound


\* C13 (as claimed): a second call of remove_outliers, on the list the first
\* retained and with the same multiplier, retains its whole input and
\* excludes nothing.
C13_SecondCallRemovesNothing ==
    outlier_calls >= 2 =>
        filtered_tickets = tickets /\ removed_outliers = <<>>

\* C13 (amended): the list a call retains holds no duration above the bounds
\* that call computed over its input, so that filtering it again with those
\* bounds retains all of it and excludes nothing.
C13_WithinBoundsOfCall ==
    outlier_calls >= 1 =>
        /\ \A status \in Statuses :
              LET upper_bound == UpperBoundOf(status)
              IN \A j \in 1 .. Len(filtered_tickets) :
                    status \in DOMAIN filtered_tickets[j].cycle_times =>
                       8 * filtered_tickets[j].cycle_times[status]
                          <= upper_bound
        /\ FilterByBounds(filtered_tickets,
                          StatusBounds(tickets, iqr_multiplier)) =
              [filtered_tickets |-> filtered_tickets,
               removed_outliers |-> <<>>]

\* the first call excluded ticket 1, and the second call, made on what the
\* first retained, retained a ticket
C13_Witness ==
    /\ outlier_calls = 2
    /\ tickets # <<>>
    /\ tickets[1].key > 1
    /\ filtered_tickets # <<>>


---------------------------------------------------------------------------
(* JiraStatistics, src/jira_statistics.py *)

\* np.mean(values): the quotient sum / count, kept as its two terms
Mean(values) == [sum |-> SumSeq(values), count |-> Len(values)]

\* np.median(values), doubled: the middle element of the sorted values, or
\* the mean of the two middle ones
Median(values) ==
    LET a == Ascending(values)
        n == Len(a)
    IN IF n % 2 = 1 THEN 2 * a[(n + 1) \div 2]
       ELSE a[n \div 2] + a[(n \div 2) + 1]

\* np.std(values) is sqrt(square) / count for these two terms
StdDev(values) ==
    LET n == Len(values)
        squares == SumSeq([i \in 1 .. n |-> values[i] * values[i]])
    IN [square |-> n * squares - SumSeq(values) * SumSeq(values), count |-> n]

\* min(items, key=...) and max(items, key=...) return the first of the
\* items, in list order, whose key is extremal
FirstMin(keys) ==
    CHOOSE i \in 1 .. Len(keys) :
        /\ \A j \in 1 .. Len(keys) : keys[i] <= keys[j]
        /\ \A j \in 1 .. (i - 1) : keys[j] > keys[i]
FirstMax(keys) ==
    CHOOSE i \in 1 .. Len(keys) :
        /\ \A j \in 1 .. Len(keys) : keys[i] >= keys[j]
        /\ \A j \in 1 .. (i - 1) : keys[j] < keys[i]

\* lines 62-64: the (seconds, key) pairs of a status, in ticket order
RECURSIVE AllCycleTimes(_, _)
AllCycleTimes(ts, status) ==
    IF ts = <<>> THEN <<>>
    ELSE (IF status \in DOMAIN Head(ts).cycle_times
          THEN <<(<<Head(ts).cycle_times[status], Head(ts).key>>)>> ELSE <<>>)
         \o AllCycleTimes(Tail(ts), status)

RecordedStatuses(ts) == UNION {DOMAIN ts[i].cycle_times : i \in 1 .. Len(ts)}

\* calculate_cycle_time_stats, lines 58-79
calculate_cycle_time_stats(ts) ==
    [status \in RecordedStatuses(ts) |->
        LET times == AllCycleTimes(ts, status)
            times_seconds == [i \in 1 .. Len(times) |-> times[i][1]]
        IN [average |-> Mean(times_seconds),
            median |-> Median(times_seconds),
            std_dev |-> StdDev(times_seconds),
            min |-> times_seconds[FirstMin(times_seconds)],
            min_ticket |-> times[FirstMin(times_seconds)][2],
            max |-> times_seconds[FirstMax(times_seconds)],
            max_ticket |-> times[FirstMax(times_seconds)][2]]]

\* get_ticket_range, lines 168-188 (the definition of lines 81-101 again)
get_ticket_range(ts) ==
    LET completed_tickets == ClosedTickets(ts)
        dates == [i \in 1 .. Len(completed_tickets) |->
                     ValueOf(completed_tickets[i].completed_date)]
        first_ticket == completed_tickets[FirstMin(dates)]
        last_ticket == completed_tickets[FirstMax(dates)]
    IN IF completed_tickets = <<>> THEN EmptyDict
       ELSE [first_ticket |->
                [key |-> first_ticket.key,
                 completion_date |-> first_ticket.completed_date],
             last_ticket |->
                [key |-> last_ticket.key,
                 completion_date |-> last_ticket.completed_date]]

\* analyze_backlog_to_progress, lines 103-111, for a list that is not empty
analyze_backlog_to_progress(ts) ==
    LET transitions == [i \in 1 .. Len(ts) |-> ts[i].backlog_to_progress]
    IN [total_transitions |-> SumSeq(transitions),
        tickets_with_transitions |->
            Len(SelectSeq(transitions, LAMBDA t : t > 0)),
        max_transitions |-> transitions[FirstMax(transitions)],
        average_transitions |-> Mean(transitions)]

\* ticket.get("original_story_points") is True / is False
IsOriginal(t) ==
    "original_story_points" \in DOMAIN t /\ t["original_story_points"] = TRUE
IsBackfilled(t) ==
    "original_story_points" \in DOMAIN t /\ t["original_story_points"] = FALSE

StoryPointsOf(ts) == [i \in 1 .. Len(ts) |-> ValueOf(ts[i].story_points)]

\* OriginalTickets taking every ticket of the list, whatever its flag
OriginalTickets_All(ts) == ts

\* lines 198-200
OriginalTickets(ts) == SelectSeq(ts, IsOriginal)

\* lines 201-203
BackfilledTickets(ts) == SelectSeq(ts, IsBackfilled)

\* analyze_story_points, lines 190-231
analyze_story_points(ts) ==
    LET original_tickets == OriginalTickets(ts)
        backfilled_tickets == BackfilledTickets(ts)
        total_original_points == SumSeq(StoryPointsOf(original_tickets))
        total_backfilled_points == SumSeq(StoryPointsOf(backfilled_tickets))
    IN [tickets_with_points |-> Len(original_tickets),
        backfilled_tickets |-> Len(backfilled_tickets),
        average_points |->
            IF original_tickets # <<>>
            THEN Some(Mean(StoryPointsOf(original_tickets)))
            ELSE Nothing,
        total_original_points |-> total_original_points,
        total_backfilled_points |-> total_backfilled_points,
        total_all_points |-> total_original_points + total_backfilled_points,
        backfilled_points |-> Len(backfilled_tickets) > 0]


\* the methods of JiraDataManager, the class of self.jira_manager
\* (src/jira_data.py:14-305)
JiraDataManagerMethods ==
    {"__init__", "get_filter_list", "get_account_id", "get_ticket_data",
     "process_issues", "calculate_cycle_times", "get_unresolved_count",
     "get_story_points", "backfill_story_points", "prepare_data",
     "get_correlations"}

\* lines 118-124: the keys of a new entry of contributors
ContributorKeys ==
    {"count", "points", "cycle_times", "first_completion", "last_completion"}

\* "if selected_statuses": neither None nor the empty set
Selected(statuses) == ~IsNothing(statuses) /\ ValueOf(statuses) # {}

\* lines 45-48, on a list that is not empty: the first iteration looks the
\* method up on the manager
CombinedCycleTimeError ==
    IF "calculate_combined_cycle_time" \notin JiraDataManagerMethods
    THEN "AttributeError" ELSE None

\* calculate_combined_cycle_time_stats, lines 36-56: no value is returned
\* when the lookup fails; on an empty list np.mean is nan and
\* timedelta(seconds=nan) raises ValueError
CombinedCycleTimeStatsError(ts) ==
    IF ts = <<>> THEN "ValueError" ELSE CombinedCycleTimeError

\* line 128
Contributing(ts) ==
    SelectSeq(ts, LAMBDA t : ~IsNothing(t.assignee) /\ ~IsNothing(t.completed_date))

\* analyze_contributors, lines 127-151: the exception the loop raises, if
\* any.  Line 131 adds None to a number for a ticket without story points;
\* lines 148-151 look the method up, and append to a key no entry has.
ContributorsError(ts, statuses) ==
    LET counted == Contributing(ts)
    IN IF counted = <<>> THEN None
       ELSE IF Selected(statuses)
       THEN IF IsNothing(counted[1].story_points) THEN "TypeError"
            ELSE IF CombinedCycleTimeError # None THEN CombinedCycleTimeError
            ELSE IF "combined_cycle_times" \notin ContributorKeys THEN "KeyError"
            ELSE None
       ELSE IF \E i \in 1 .. Len(counted) : IsNothing(counted[i].story_points)
       THEN "TypeError" ELSE None

\* lines 136-146: the strict comparisons keep the extremal date
RECURSIVE FirstCompletion(_, _)
FirstCompletion(first, ts) ==
    IF ts = <<>> THEN first
    ELSE LET completion_date == Head(ts).completed_date
         IN FirstCompletion(
                IF IsNothing(first) \/ ValueOf(completion_date) < ValueOf(first)
                THEN completion_date ELSE first,
                Tail(ts))

RECURSIVE LastCompletion(_, _)
LastCompletion(last, ts) ==
    IF ts = <<>> THEN last
    ELSE LET completion_date == Head(ts).completed_date
         IN LastCompletion(
                IF IsNothing(last) \/ ValueOf(completion_date) > ValueOf(last)
                THEN completion_date ELSE last,
                Tail(ts))

\* analyze_contributors, lines 113-166, when nothing is raised
analyze_contributors(ts) ==
    LET counted == Contributing(ts)
        assignees == {ValueOf(counted[i].assignee) : i \in 1 .. Len(counted)}
        details ==
            [assignee \in assignees |->
                LET own == SelectSeq(counted,
                                     LAMBDA t : ValueOf(t.assignee) = assignee)
                IN [count |-> Len(own),
                    points |-> SumSeq(StoryPointsOf(own)),
                    cycle_times |->
                        [status \in RecordedStatuses(own) |->
                            TimesOfStatus(own, status)],
                    first_completion |-> FirstCompletion(Nothing, own),
                    last_completion |-> LastCompletion(Nothing, own),
                    avg_cycle_times |->
                        [status \in RecordedStatuses(own) |->
                            Mean(TimesOfStatus(own, status))]]]
    IN [count |-> Cardinality(assignees), details |-> details]

\* pd.DataFrame(tickets).columns: every key of some ticket
Columns(ts) == UNION {DOMAIN ts[i] : i \in 1 .. Len(ts)}

\* a cell of the frame: NaN (Nothing) for a ticket without the key, and for
\* a None
Cell(t, column) ==
    IF column \notin DOMAIN t THEN Nothing
    ELSE IF column = "story_points" THEN t[column]
    ELSE Some(t[column])

\* Series.corr: Pearson's r over the rows where both cells are not null; nan
\* with fewer than 2 such rows or when one side does not vary, and else
\* covariance / sqrt(variance_x * variance_y) of these three terms
Corr(ts, x_column, y_column) ==
    LET rows == SelectSeq(ts, LAMBDA t : /\ ~IsNothing(Cell(t, x_column))
                                         /\ ~IsNothing(Cell(t, y_column)))
        n == Len(rows)
        x == [i \in 1 .. n |-> ValueOf(Cell(rows[i], x_column))]
        y == [i \in 1 .. n |-> ValueOf(Cell(rows[i], y_column))]
        xy == SumSeq([i \in 1 .. n |-> x[i] * y[i]])
        xx == SumSeq([i \in 1 .. n |-> x[i] * x[i]])
        yy == SumSeq([i \in 1 .. n |-> y[i] * y[i]])
        variance_x == n * xx - SumSeq(x) * SumSeq(x)
        variance_y == n * yy - SumSeq(y) * SumSeq(y)
    IN IF n < 2 \/ variance_x = 0 \/ variance_y = 0 THEN <<"nan">>
       ELSE <<n * xy - SumSeq(x) * SumSeq(y), variance_x, variance_y>>

\* lines 242, 248, 254: the key of each correlation and the column it reads
CorrelationColumns ==
    [acceptance_criteria_cycle_time |-> "acceptance_criteria_length",
     description_cycle_time |-> "description_length",
     story_points_cycle_time |-> "story_points"]

\* get_correlations, lines 233-261
get_correlations(ts) ==
    [name \in {c \in DOMAIN CorrelationColumns :
                  /\ CorrelationColumns[c] \in Columns(ts)
                  /\ "cycle_time" \in Columns(ts)} |->
        Corr(ts, CorrelationColumns[name], "cycle_time")]


\* lines 208-209: sum() adds None to a number for a flagged ticket without
\* story points
StoryPointsError(ts) ==
    IF \E i \in 1 .. Len(ts) :
          /\ "original_story_points" \in DOMAIN ts[i]
          /\ IsNothing(ts[i].story_points)
    THEN "TypeError" ELSE None

\* a ticket as backfill_story_points leaves it (src/jira_data.py:236-243):
\* the processed dict with the key original_story_points
Flagged(t, original) ==
    [k \in DOMAIN t \cup {"original_story_points"} |->
        IF k = "original_story_points" THEN original ELSE t[k]]

\* the list get_filter_statistics is given holds one more ticket, flagged;
\* the list has at most max tickets
AppendFlagged(Issues, max) ==
    /\ tpc = "process"
    /\ Len(tickets) < max
    /\ \E issue \in Issues, original \in BOOLEAN :
          tickets' = Append(tickets,
                            Flagged(ProcessedIssue(Len(tickets) + 1, issue),
                                    original))
    /\ UNCHANGED <<use_story_points, df, iqr_multiplier, filtered_tickets,
                   removed_outliers, outlier_calls, selected_statuses, stats,
                   terror, tpc>>

\* the selected_statuses argument: None, the empty set, or a set of statuses
StatusSelections == {Nothing, Some({}), Some({"In Progress"})}

StatisticsInit ==
    /\ tickets = <<>>
    /\ use_story_points = FALSE
    /\ df = Nothing
    /\ iqr_multiplier = 0
    /\ filtered_tickets = <<>>
    /\ removed_outliers = <<>>
    /\ outlier_calls = 0
    /\ selected_statuses \in StatusSelections
    /\ stats = EmptyDict
    /\ terror = None
    /\ tpc = "process"

\* the value of one key of the dict of lines 18-30 is computed, or the call
\* made for it raises
Computed(key, value, exception, after) ==
    /\ IF exception # None
       THEN stats' = stats /\ terror' = exception /\ tpc' = "raised"
       ELSE stats' = SetKey(stats, key, value) /\ terror' = terror /\ tpc' = after
    /\ UNCHANGED <<tickets, use_story_points, df, iqr_multiplier,
                   filtered_tickets, removed_outliers, outlier_calls,
                   selected_statuses>>

\* line 19: get_filter_statistics is called with the list
CycleTimeStats ==
    /\ tpc = "process"
    /\ Computed("cycle_time", calculate_cycle_time_stats(tickets), None,
                "combined_cycle_time")

\* lines 20-24
CombinedCycleTimeStats ==
    /\ tpc = "combined_cycle_time"
    /\ Computed("combined_cycle_time", Nothing,
                IF Selected(selected_statuses)
                THEN CombinedCycleTimeStatsError(tickets) ELSE None,
                "contributors")

\* line 25
AnalyzeContributors ==
    /\ tpc = "contributors"
    /\ Computed("contributors", analyze_contributors(tickets),
                ContributorsError(tickets, selected_statuses), "ticket_range")

\* line 26
GetTicketRange ==
    /\ tpc = "ticket_range"
    /\ Computed("ticket_range", get_ticket_range(tickets), None, "story_points")

\* line 27
AnalyzeStoryPoints ==
    /\ tpc = "story_points"
    /\ Computed("story_points", analyze_story_points(tickets),
                StoryPointsError(tickets), "correlations")

\* line 28
GetCorrelations ==
    /\ tpc = "correlations"
    /\ Computed("correlations", get_correlations(tickets), None,
                "backlog_to_progress")

\* lines 29-34: max() of an empty list raises ValueError
AnalyzeBacklogToProgress ==
    /\ tpc = "backlog_to_progress"
    /\ Computed("backlog_to_progress", analyze_backlog_to_progress(tickets),
                IF tickets = <<>> THEN "ValueError" ELSE None, "returned")

GetFilterStatistics ==
    \/ CycleTimeStats
    \/ CombinedCycleTimeStats
    \/ AnalyzeContributors
    \/ GetTicketRange
    \/ AnalyzeStoryPoints
    \/ GetCorrelations
    \/ AnalyzeBacklogToProgress

InitStatistics == StatisticsInit /\ CycleIdle /\ ForecastIdle /\ BackfillIdle

\* tickets that differ in their story points and their flag only
StoryPointIssues ==
    IssueFields({Some(p) : p \in Points}, {Nothing}, {Nothing}, {EmptyDict},
                {0}, {0})

NextStoryPoints ==
    \/ ProcessIssue(StoryPointIssues, MaxTickets)
          /\ UNCHANGED <<cycleVars, forecastVars, backfillVars>>
    \/ AppendFlagged(StoryPointIssues, MaxTickets)
          /\ UNCHANGED <<cycleVars, forecastVars, backfillVars>>
    \/ GetFilterStatistics /\ UNCHANGED <<cycleVars, forecastVars, backfillVars>>

SpecStoryPoints == InitStatistics /\ [][NextStoryPoints]_vars


\* the tickets whose story points are original, and those backfilled
OriginalSet == {i \in 1 .. Len(tickets) : IsOriginal(tickets[i])}
BackfilledSet == {i \in 1 .. Len(tickets) : IsBackfilled(tickets[i])}

PointsOver(S) == SumOver([i \in 1 .. Len(tickets) |-> ValueOf(tickets[i].story_points)], S)

---------------------------------------------------------------------------
(* get_filter_statistics on processed issues *)

MaxStatTickets == 2     \* tickets in one list given to get_filter_statistics

Assignees == {"ann"}

\* tickets that differ in their completion date, assignee and cycle times
RollupIssues ==
    IssueFields({Some(1)}, Optional(Dates), Optional(Assignees),
                CycleTimesDicts, {0}, {0})

\* completed, assigned tickets that differ in their story points, lengths
\* and transition count
CorrelationIssues ==
    IssueFields(Optional(Points), {Some(1)}, {Some(a) : a \in Assignees},
                {"Backlog" :> 1}, {0, 1}, {0, 1})

NextStatistics ==
    \/ ProcessIssue(RollupIssues \cup CorrelationIssues, MaxStatTickets)
          /\ UNCHANGED <<cycleVars, forecastVars, backfillVars>>
    \/ AppendFlagged(StoryPointIssues, MaxStatTickets)
          /\ UNCHANGED <<cycleVars, forecastVars, backfillVars>>
    \/ GetFilterStatistics /\ UNCHANGED <<cycleVars, forecastVars, backfillVars>>

SpecStatistics == InitStatistics /\ [][NextStatistics]_vars

\* the sum of the durations of the statuses that are both in the map and in
\* the set
CombinedOf(cycle_times_of, statuses) ==
    SumOver(cycle_times_of, DOMAIN cycle_times_of \cap statuses)

\* C14 (as claimed): the call calculate_combined_cycle_time_stats makes for
\* each ticket returns, without error, the sum of the ticket's durations over
\* the statuses that are both in its map and in the selected set, so that
\* with a status set supplied the combined statistics are those of these
\* sums.
C14_CombinedCycleTime ==
    (/\ Selected(selected_statuses)
     /\ tickets # <<>>
     /\ tpc \notin {"process", "combined_cycle_time"}) =>
        /\ "combined_cycle_time" \in DOMAIN stats
        /\ LET combined_times ==
                  [i \in 1 .. Len(tickets) |->
                      CombinedOf(tickets[i].cycle_times,
                                 ValueOf(selected_statuses))]
           IN stats["combined_cycle_time"] =
                 [average |-> Mean(combined_times),
                  median |-> Median(combined_times),
                  std_dev |-> StdDev(combined_times),
                  min |-> combined_times[FirstMin(combined_times)],
                  max |-> combined_times[FirstMax(combined_times)]]

StatisticsKeys ==
    {"cycle_time", "combined_cycle_time", "contributors", "ticket_range",
     "story_points", "correlations", "backlog_to_progress"}

\* every ticket has story points, as after backfill_story_points
AllHavePoints ==
    \A i \in 1 .. Len(tickets) : ~IsNothing(tickets[i].story_points)

\* C16 (as claimed): on a list that is not empty, get_filter_statistics
\* does not raise when a statistic is undefined; it returns every field,
\* combined_cycle_time included when a status set is supplied, with an empty
\* ticket_range when no ticket is completed, no average_points when no
\* ticket has original story points, and no correlation whose columns are
\* missing.
C16_UndefinedStatisticsAbsent ==
    (tickets # <<>> /\ AllHavePoints /\ tpc \in {"returned", "raised"}) =>
        /\ tpc = "returned"
        /\ DOMAIN stats = StatisticsKeys
        /\ Selected(selected_statuses) <=> ~IsNothing(stats["combined_cycle_time"])
        /\ ClosedTickets(tickets) = <<>> => stats["ticket_range"] = EmptyDict
        /\ OriginalSet = {} => IsNothing(stats["story_points"].average_points)
        /\ "cycle_time" \notin Columns(tickets) => stats["correlations"] = EmptyDict

\* the tickets that have both a value of the column and cycle times
Paired(column) ==
    {i \in 1 .. Len(tickets) :
        /\ ~IsNothing(Cell(tickets[i], column))
        /\ "cycle_times" \in DOMAIN tickets[i]
        /\ tickets[i].cycle_times # EmptyDict}

\* C17 (as claimed): for tickets as process_issues makes them, each of the
\* three correlations is in the result whenever at least 2 tickets have
\* both attributes, and is absent or undefined, never a number, with fewer
\* than 2 such tickets.
C17_CorrelationsOfProcessedIssues ==
    "correlations" \in DOMAIN stats =>
        \A name \in DOMAIN CorrelationColumns :
            IF Cardinality(Paired(CorrelationColumns[name])) >= 2
            THEN name \in DOMAIN stats["correlations"]
            ELSE name \in DOMAIN stats["correlations"]
                    => stats["correlations"][name] = <<"nan">>

\* the rollups of a contributor that the claim names
Rollups(contributors) ==
    [assignee \in DOMAIN contributors.details |->
        [count |-> contributors.details[assignee].count,
         points |-> contributors.details[assignee].points,
         first_completion |-> contributors.details[assignee].first_completion,
         last_completion |-> contributors.details[assignee].last_completion]]

\* C20 (as claimed): the per-status statistics with min_ticket and
\* max_ticket, the ticket range and the rollups of the contributors are the
\* same for every order of the tickets, ties on the extremal duration or
\* completion date included.
C20_OrderIndependentStatistics ==
    tpc = "returned" =>
        \A p \in Permutations(1 .. Len(tickets)) :
            LET permuted == Permuted(tickets, p)
            IN /\ calculate_cycle_time_stats(permuted) = stats["cycle_time"]
               /\ get_ticket_range(permuted) = stats["ticket_range"]
               /\ Rollups(analyze_contributors(permuted))
                     = Rollups(stats["contributors"])


---------------------------------------------------------------------------
(* The transition count of calculate_cycle_times *)

\* positions of the status changes of the changelog
StatusEvents == {i \in 1 .. Len(changelog) : changelog[i].field = "status"}

\* positions of the status changes from "Backlog" to "In Progress"
TrackedTransitions ==
    {i \in StatusEvents : /\ changelog[i].fromString = "Backlog"
                          /\ changelog[i].toString = "In Progress"}

\* the sorted event at position i leaves a status that has no open interval:
\* no earlier event entered it, or an event after its last entry left it
LeavesUnopened(i) ==
    LET s == status_changes[i][2]
        before == {k \in Entering(s) : k < i}
    IN \/ before = {}
       \/ \E j \in Leaving(s) : j < i /\ \A k \in before : k < j

\* C21: the count calculate_cycle_times returns is the number of status
\* changes of the changelog from "Backlog" to "In Progress", whatever the
\* order of the events and whether or not Backlog had an open interval at
\* the change; a changelog without status changes gives an empty map and
\* the count zero.
C21_TransitionCount ==
    cpc \in {"fold", "done"} =>
        /\ backlog_to_progress_count = Cardinality(TrackedTransitions)
        /\ \A p \in Permutations(1 .. Len(changelog)) :
              CountBacklogToProgress(Permuted(changelog, p))
                 = backlog_to_progress_count
        /\ (cpc = "done" /\ StatusEvents = {}) =>
              cycle_times = EmptyDict /\ backlog_to_progress_count = 0

\* two tracked transitions, given latest first, the earlier one leaving a
\* Backlog that no event had entered
C21_Witness ==
    /\ cpc = "done"
    /\ backlog_to_progress_count = 2
    /\ Len(changelog) >= 2
    /\ changelog[1].field = "status"
    /\ changelog[2].field = "status"
    /\ changelog[1].created > changelog[2].created
    /\ status_changes[1][2] = "Backlog"
    /\ status_changes[1][3] = "In Progress"
    /\ LeavesUnopened(1)


---------------------------------------------------------------------------
(* backfill_story_points, src/jira_data.py:221-246 *)

MaxBackfillCalls == 2   \* calls of backfill_story_points on one list

\* np.mean of story points need not be an integer: a story point value is
\* a quotient sum / count here, the value p of the source being p / 1
Quotient(p) == [sum |-> p, count |-> 1]

SameQuotient(a, b) == a.sum * b.count = b.sum * a.count

\* the sum of a list of quotients
RECURSIVE SumQuotients(_)
SumQuotients(values) ==
    IF values = <<>> THEN Quotient(0)
    ELSE LET head == Head(values)
             rest == SumQuotients(Tail(values))
         IN [sum |-> head.sum * rest.count + rest.sum * head.count,
             count |-> head.count * rest.count]

\* np.mean over a non-empty list of quotients (line 231)
MeanOfQuotients(values) ==
    LET total == SumQuotients(values)
    IN [sum |-> total.sum, count |-> total.count * Len(values)]

\* lines 222-226: 0 is a value, only None is left out
ValidPoints(ts) ==
    LET valid == SelectSeq(ts, LAMBDA t : ~IsNothing(t.story_points))
    IN [i \in 1 .. Len(valid) |-> ValueOf(valid[i].story_points)]

\* lines 227-231
AveragePoints(ts) ==
    IF ValidPoints(ts) = <<>> THEN Quotient(1)
    ELSE MeanOfQuotients(ValidPoints(ts))

\* lines 237-242, one iteration: process_issues gives every ticket the key
\* story_points
BackfillTicket(ticket, average_points) ==
    IF IsNothing(ticket.story_points)
    THEN Flagged([ticket EXCEPT !.story_points = Some(average_points)], FALSE)
    ELSE Flagged(ticket, TRUE)

\* what backfill_story_points makes of the list (the dicts are changed in
\* place and the list is returned)
BackfillStoryPointsOf(ts) ==
    LET average_points == AveragePoints(ts)
    IN [i \in 1 .. Len(ts) |-> BackfillTicket(ts[i], average_points)]

BackfillInit ==
    /\ tickets = <<>>
    /\ use_story_points = FALSE
    /\ df = Nothing
    /\ iqr_multiplier = 0
    /\ filtered_tickets = <<>>
    /\ removed_outliers = <<>>
    /\ outlier_calls = 0
    /\ selected_statuses = <<>>
    /\ stats = EmptyDict
    /\ terror = None
    /\ tpc = "process"
    /\ source_tickets = <<>>
    /\ backfill_calls = 0

\* backfill_story_points is called with the list process_issues returned,
\* or again with the list it returned
BackfillStoryPoints ==
    /\ tpc \in {"process", "backfilled"}
    /\ backfill_calls < MaxBackfillCalls
    /\ source_tickets' = IF backfill_calls = 0 THEN tickets ELSE source_tickets
    /\ tickets' = BackfillStoryPointsOf(tickets)
    /\ backfill_calls' = backfill_calls + 1
    /\ tpc' = "backfilled"
    /\ UNCHANGED <<use_story_points, df, iqr_multiplier, filtered_tickets,
                   removed_outliers, outlier_calls, selected_statuses, stats,
                   terror>>

InitBackfill == BackfillInit /\ CycleIdle /\ ForecastIdle

\* tickets that differ in their story points only: None, 0, or more
BackfillIssues ==
    IssueFields(Optional({Quotient(p) : p \in 0 .. MaxPoints}), {Nothing},
                {Nothing}, {EmptyDict}, {0}, {0})

NextBackfill ==
    \/ ProcessIssue(BackfillIssues, MaxTickets)
          /\ UNCHANGED <<cycleVars, forecastVars, backfillVars>>
    \/ BackfillStoryPoints /\ UNCHANGED <<cycleVars, forecastVars>>

SpecBackfill == InitBackfill /\ [][NextBackfill]_vars


\* the tickets whose story points the source data had, and the others
SourcePresent ==
    {i \in 1 .. Len(source_tickets) :
        ~IsNothing(source_tickets[i].story_points)}
SourceAbsent == (1 .. Len(source_tickets)) \ SourcePresent

\* the sum of the story points the source data had
SourceTotal ==
    SumQuotients([i \in 1 .. Len(source_tickets) |->
        IF i \in SourcePresent THEN ValueOf(source_tickets[i].story_points)
        ELSE Quotient(0)])

\* value is the mean of the story points the source data had, 1 without any
IsSourceMean(value) ==
    IF SourcePresent = {} THEN SameQuotient(value, Quotient(1))
    ELSE value.sum * SourceTotal.count * Cardinality(SourcePresent)
            = SourceTotal.sum * value.count

\* the flags and the values are those of a backfill of the source data
FlagsOfSource ==
    /\ Len(tickets) = Len(source_tickets)
    /\ \A i \in SourcePresent :
          /\ IsOriginal(tickets[i])
          /\ tickets[i].story_points = source_tickets[i].story_points
    /\ \A i \in SourceAbsent :
          /\ IsBackfilled(tickets[i])
          /\ ~IsNothing(tickets[i].story_points)
          /\ IsSourceMean(ValueOf(tickets[i].story_points))

\* C22 (as claimed): after any number of calls of backfill_story_points on
\* the same list, original_story_points is true exactly for the tickets
\* whose story points the source data had and false exactly for the others,
\* whose story points are the mean of the source values (1 without any); a
\* second call changes neither the flags nor the values.
C22_FlagsOfSourceAfterCalls ==
    backfill_calls >= 1 => FlagsOfSource


---------------------------------------------------------------------------
(* Chains of status changes *)

\* the sorted status changes have strictly increasing timestamps, each
\* leaves the status the one before entered, and none stays in its status
IsChain ==
    /\ status_changes # <<>>
    /\ \A i \in 1 .. Len(status_changes) :
          /\ status_changes[i][2] # status_changes[i][3]
          /\ i > 1 => /\ status_changes[i - 1][1] < status_changes[i][1]
                      /\ status_changes[i][2] = status_changes[i - 1][3]

\* the lengths of the closed intervals of s
ClosedIntervalsSum(s) ==
    SumOver([i \in LatestEntries(s) |-> ClosedLength(s, i)], LatestEntries(s))

\* C23: for a chain (strictly increasing timestamps, each from_status the
\* to_status of the event before, from_status # to_status), after every
\* processed event exactly one status is open, the latest to_status, and
\* the values of the returned map sum to now minus the first timestamp;
\* whatever the history, every status open at the end (there can be several
\* when it is no chain) is credited up to now.
C23_ChainAccounting ==
    /\ (cpc \in {"fold", "done"} /\ IsChain /\ next_change > 1) =>
          DOMAIN status_start_times = {status_changes[next_change - 1][3]}
    /\ (cpc = "done" /\ IsChain) =>
          SumOver(cycle_times, DOMAIN cycle_times)
             = current_time - status_changes[1][1]
    /\ cpc = "done" =>
          \A s \in DOMAIN status_start_times :
              /\ s \in DOMAIN cycle_times
              /\ cycle_times[s] - ClosedIntervalsSum(s)
                    = current_time - status_start_times[s]

\* a chain of three events, given latest first, with two closed intervals
\* and an open one of positive lengths
C23_Witness ==
    /\ cpc = "done"
    /\ IsChain
    /\ Len(status_changes) = 3
    /\ changelog[1].created > changelog[2].created
    /\ current_time > status_changes[3][1]
    /\ Cardinality(DOMAIN cycle_times) = 2

===========================================================================
